---- MODULE Spec2Model ----
(***************************************************************************)
(* Cluster metadata persistence of p2plab (metadata/cluster.go): the       *)
(* cluster codec over nested bolt buckets and the six lifecycle operations *)
(* GetCluster, ListClusters, CreateCluster, UpdateCluster, LabelClusters   *)
(* and DeleteCluster, each wrapped in one bolt transaction.                *)
(*                                                                         *)
(* A bucket is a record [kv, sub]: kv maps the keys of its flat fields to  *)
(* their values, sub maps the keys of its child buckets to buckets.  A     *)
(* missing child (a nil *bolt.Bucket) is a key outside DOMAIN sub.         *)
(* Opaque byte strings are TLA+ strings; decimal text (strconv.Itoa) is a  *)
(* sequence of one-character strings.  An optional value (a Go pointer)    *)
(* is a sequence of length 0 or 1.  Times are integers.                    *)
(***************************************************************************)
EXTENDS Integers, Sequences, FiniteSets, TLC

\* ------------------------------------------------------------------ bounds

\* time.Now() returns values from 1 to MaxTime.
MaxTime == 2

\* At most MaxOps read-write transactions are opened in one behaviour.
MaxOps == 3

\* A caller-supplied timestamp later than every clock reading.
Far == MaxTime + 1

ClusterSizeMax == 1000

\* ------------------------------------------------------------------ errors

NoErr == "ok"
ErrNotFound == "NotFound"
ErrAlreadyExists == "AlreadyExists"
ErrInvalidArgument == "InvalidArgument"
ErrFormat == "FormatError"
ErrBucketNotFound == "BucketNotFound"
ErrIncompatibleValue == "IncompatibleValue"

\* ------------------------------------------------------------ bucket keys

bucketKeyClusters == "clusters"
bucketKeyID == "id"
bucketKeyStatus == "status"
bucketKeyDefinition == "definition"
bucketKeyLabels == "labels"
bucketKeySize == "size"
bucketKeyInstanceType == "instanceType"
bucketKeyRegion == "region"
bucketKeyCreatedAt == "createdAt"
bucketKeyUpdatedAt == "updatedAt"
bucketKeyGitReference == "gitReference"

\* ------------------------------------------------------------ bolt buckets

EmptyBucket == [kv |-> <<>>, sub |-> <<>>]

\* bkt.Bucket(k) != nil
HasBucket(b, k) == k \in DOMAIN b.sub

\* bkt.Bucket(k), for a key that has a bucket
Bucket(b, k) == b.sub[k]

\* bkt.Get(k) != nil
HasKey(b, k) == k \in DOMAIN b.kv

\* bkt.Put(k, v)
Put(b, k, v) == [b EXCEPT !.kv = (k :> v) @@ b.kv]

\* bkt.CreateBucket(k), for a key that has no bucket: a fresh empty child
CreateBucket(b, k) == [b EXCEPT !.sub = (k :> EmptyBucket) @@ b.sub]

\* bkt.DeleteBucket(k): the child and all its nested state are removed
DeleteBucket(b, k) == [b EXCEPT !.sub = [j \in (DOMAIN b.sub) \ {k} |-> b.sub[j]]]

\* The error of bkt.DeleteBucket(k).  Bolt seeks the first key not below k
\* and compares it with k: a key that holds a flat value is an incompatible
\* value, and so is the empty key in an empty bucket, where the seek ends on
\* no key, which compares equal to the empty key.
DeleteBucketErr(b, k) ==
    IF HasBucket(b, k) THEN NoErr
    ELSE IF HasKey(b, k) THEN ErrIncompatibleValue
    ELSE IF k = "" /\ DOMAIN b.sub = {} /\ DOMAIN b.kv = {} THEN ErrIncompatibleValue
    ELSE ErrBucketNotFound

\* A write through the handle of child k: the child's new contents are c.
SetBucket(b, k, c) == [b EXCEPT !.sub = (k :> c) @@ b.sub]

\* RecreateBucket(bkt, key): drop the child if it exists, create it afresh.
RecreateBucket(b, k) == CreateBucket(DeleteBucket(b, k), k)

\* The writes W made through the handle of child k of b.
WithBucket(b, k, W(_)) == SetBucket(b, k, W(Bucket(b, k)))

\* ------------------------------------------------------------ decimal text

Digits == <<"0", "1", "2", "3", "4", "5", "6", "7", "8", "9">>

RECURSIVE ItoaNat(_)
ItoaNat(n) == IF n < 10 THEN <<Digits[n + 1]>>
              ELSE ItoaNat(n \div 10) \o <<Digits[(n % 10) + 1]>>

\* strconv.Itoa
Itoa(n) == IF n < 0 THEN <<"-">> \o ItoaNat(0 - n) ELSE ItoaNat(n)

IsDigit(c) == \E d \in 1..10 : Digits[d] = c

DigitVal(c) == (CHOOSE d \in 1..10 : Digits[d] = c) - 1

RECURSIVE AtoiNat(_, _)
AtoiNat(s, acc) == IF s = <<>> THEN acc
                   ELSE AtoiNat(Tail(s), 10 * acc + DigitVal(Head(s)))

\* The digits of a decimal text after its optional sign.
StripSign(s) == IF s # <<>> /\ Head(s) \in {"-", "+"} THEN Tail(s) ELSE s

ParseDigits(body, sign) ==
    IF body = <<>> \/ \E i \in 1..Len(body) : ~IsDigit(body[i])
    THEN [err |-> ErrFormat, val |-> 0]
    ELSE [err |-> NoErr, val |-> sign * AtoiNat(body, 0)]

\* strconv.Atoi: [err, val]; an optional sign, then one or more digits
Atoi(s) == ParseDigits(StripSign(s), IF s # <<>> /\ Head(s) = "-" THEN 0 - 1 ELSE 1)

\* ------------------------------------------------------------------ values

\* The zero values of the Go types (Cluster{}, ClusterGroup{}, time.Time{}).
ZeroTime == 0

ZeroGroup == [Size |-> 0, InstanceType |-> "", Region |-> "",
              Peer |-> <<>>, Labels |-> <<>>]

ZeroCluster == [ID |-> "", Status |-> "", Definition |-> [Groups |-> <<>>],
                Labels |-> <<>>, CreatedAt |-> ZeroTime, UpdatedAt |-> ZeroTime]

\* Every label the model uses, in the byte order in which bolt iterates keys.
LabelOrder == <<"p", "q", "r">>

SeqToSet(s) == {s[i] : i \in 1..Len(s)}

\* ------------------------------------------------------------------ labels

RECURSIVE PutLabels(_, _)
PutLabels(lbkt, labels) ==
    IF labels = <<>> THEN lbkt
    ELSE PutLabels(Put(lbkt, Head(labels), ""), Tail(labels))

\* writeLabels: recreate the labels bucket, one key per label (labels are
\* non-empty strings: bolt refuses an empty key).
writeLabels(bkt, labels) ==
    WithBucket(RecreateBucket(bkt, bucketKeyLabels), bucketKeyLabels,
               LAMBDA lbkt : PutLabels(lbkt, labels))

\* readLabels: the keys of the labels bucket in iteration order; none when the
\* bucket is missing.
readLabels(bkt) ==
    IF ~HasBucket(bkt, bucketKeyLabels) THEN <<>>
    ELSE SelectSeq(LabelOrder,
                   LAMBDA l : HasKey(Bucket(bkt, bucketKeyLabels), l))

\* -------------------------------------------------------------- timestamps

\* The time text of a timestamp, and its parse.
MarshalTime(t) == Itoa(t)

UnmarshalTime(v) == Atoi(v)

\* WriteTimestamps: both timestamps, as a pair of flat fields.
WriteTimestamps(bkt, created, updated) ==
    Put(Put(bkt, bucketKeyCreatedAt, MarshalTime(created)),
        bucketKeyUpdatedAt, MarshalTime(updated))

\* ReadTimestamps: [err, created, updated]; a missing field leaves its target
\* as it was.
timestampsOf(c, u, created, updated) ==
    IF c.err # NoErr THEN [err |-> c.err, created |-> created, updated |-> updated]
    ELSE IF u.err # NoErr THEN [err |-> u.err, created |-> c.val, updated |-> updated]
    ELSE [err |-> NoErr, created |-> c.val, updated |-> u.val]

ReadTimestamps(bkt, created, updated) ==
    timestampsOf(IF HasKey(bkt, bucketKeyCreatedAt)
                 THEN UnmarshalTime(bkt.kv[bucketKeyCreatedAt])
                 ELSE [err |-> NoErr, val |-> created],
                 IF HasKey(bkt, bucketKeyUpdatedAt)
                 THEN UnmarshalTime(bkt.kv[bucketKeyUpdatedAt])
                 ELSE [err |-> NoErr, val |-> updated],
                 created, updated)

\* --------------------------------------------------------- peer definition

\* writePeerDefinition: the peer's fields in a child bucket under the
\* reserved definition key of the group bucket.
writePeerDefinition(gbkt, pdef) ==
    WithBucket(RecreateBucket(gbkt, bucketKeyDefinition), bucketKeyDefinition,
               LAMBDA pbkt : Put(pbkt, bucketKeyGitReference, pdef.GitReference))

peerOf(pbkt) ==
    [GitReference |-> IF HasKey(pbkt, bucketKeyGitReference)
                      THEN pbkt.kv[bucketKeyGitReference] ELSE ""]

\* readPeerDefinition, for a group bucket that has the child bucket
readPeerDefinition(gbkt) == peerOf(Bucket(gbkt, bucketKeyDefinition))

\* ------------------------------------------------------- cluster definition

\* The body of the loop of writeClusterDefinition for the group at index i.
writeGroupPeer(gbkt, group) ==
    IF group.Peer # <<>> THEN writePeerDefinition(gbkt, group.Peer[1]) ELSE gbkt

writeGroupFields(gbkt, group) ==
    Put(Put(Put(gbkt, bucketKeySize, Itoa(group.Size)),
            bucketKeyInstanceType, group.InstanceType),
        bucketKeyRegion, group.Region)

\* writeGroup with the group keyed by its size instead of by its index.
writeGroupBySize(dbkt, i, group) ==
    WithBucket(CreateBucket(dbkt, Itoa(group.Size)), Itoa(group.Size),
               LAMBDA gbkt : writeGroupFields(
                                writeGroupPeer(writeLabels(gbkt, group.Labels), group),
                                group))

\* writeGroup with the group keyed from one instead of from zero.
writeGroupFromOne(dbkt, i, group) ==
    WithBucket(CreateBucket(dbkt, Itoa(i + 1)), Itoa(i + 1),
               LAMBDA gbkt : writeGroupFields(
                                writeGroupPeer(writeLabels(gbkt, group.Labels), group),
                                group))

writeGroup(dbkt, i, group) ==
    WithBucket(CreateBucket(dbkt, Itoa(i)), Itoa(i),
               LAMBDA gbkt : writeGroupFields(
                                writeGroupPeer(writeLabels(gbkt, group.Labels), group),
                                group))

RECURSIVE writeGroups(_, _, _)
writeGroups(dbkt, groups, i) ==
    IF i >= Len(groups) THEN dbkt
    ELSE writeGroups(writeGroup(dbkt, i, groups[i + 1]), groups, i + 1)

\* writeClusterDefinition with CreateBucketIfNotExists in place of
\* RecreateBucket: the groups of the earlier definition are not discarded.
writeClusterDefinitionKeep(bkt, cdef) ==
    WithBucket(IF HasBucket(bkt, bucketKeyDefinition) THEN bkt
               ELSE CreateBucket(bkt, bucketKeyDefinition),
               bucketKeyDefinition,
               LAMBDA dbkt : writeGroups(dbkt, cdef.Groups, 0))

\* writeClusterDefinition: recreate the definition bucket, then one child
\* bucket per group, keyed by the decimal text of its index.
writeClusterDefinition(bkt, cdef) ==
    WithBucket(RecreateBucket(bkt, bucketKeyDefinition), bucketKeyDefinition,
               LAMBDA dbkt : writeGroups(dbkt, cdef.Groups, 0))

\* The body of the loop of readClusterDefinition: [err, group]
groupOf(gbkt, size) ==
    [err |-> size.err,
     group |-> [Size |-> size.val,
                InstanceType |-> IF HasKey(gbkt, bucketKeyInstanceType)
                                 THEN gbkt.kv[bucketKeyInstanceType] ELSE "",
                Region |-> IF HasKey(gbkt, bucketKeyRegion)
                           THEN gbkt.kv[bucketKeyRegion] ELSE "",
                Peer |-> IF HasBucket(gbkt, bucketKeyDefinition)
                         THEN <<readPeerDefinition(gbkt)>> ELSE <<>>,
                Labels |-> readLabels(gbkt)]]

\* ForEach hands the function every key of the group bucket, with a nil value
\* for a key that holds a nested bucket; the loop has no check for nil, so a
\* nested bucket under the size key is parsed as the empty text (an error)
\* and one under the instance type or region key reads as the empty string.
readGroup(gbkt) ==
    groupOf(gbkt, IF HasKey(gbkt, bucketKeySize) THEN Atoi(gbkt.kv[bucketKeySize])
                  ELSE IF HasBucket(gbkt, bucketKeySize) THEN Atoi(<<>>)
                  ELSE [err |-> NoErr, val |-> 0])

\* The probe loop of readClusterDefinition from index i: [err, groups]
RECURSIVE readGroups(_, _, _)
RECURSIVE readGroupsNext(_, _, _, _)
readGroups(dbkt, i, acc) ==
    IF ~HasBucket(dbkt, Itoa(i)) THEN [err |-> NoErr, groups |-> acc]
    ELSE readGroupsNext(dbkt, i, acc, readGroup(Bucket(dbkt, Itoa(i))))

readGroupsNext(dbkt, i, acc, g) ==
    IF g.err # NoErr THEN [err |-> g.err, groups |-> acc]
    ELSE readGroups(dbkt, i + 1, Append(acc, g.group))

definitionOf(r) == [err |-> r.err, cdef |-> [Groups |-> r.groups]]

\* readClusterDefinition: [err, cdef]; no definition bucket is no groups
readClusterDefinition(bkt) ==
    IF ~HasBucket(bkt, bucketKeyDefinition)
    THEN [err |-> NoErr, cdef |-> [Groups |-> <<>>]]
    ELSE definitionOf(readGroups(Bucket(bkt, bucketKeyDefinition), 0, <<>>))

\* ------------------------------------------------------------------ cluster

\* writeCluster without its call of writeClusterDefinition.
writeClusterNoDefinition(bkt, cluster) ==
    Put(Put(writeLabels(WriteTimestamps(bkt, cluster.CreatedAt, cluster.UpdatedAt),
                        cluster.Labels),
            bucketKeyID, cluster.ID),
        bucketKeyStatus, cluster.Status)

\* writeCluster with the values of the id and status fields exchanged.
writeClusterFieldsSwapped(bkt, cluster) ==
    Put(Put(writeLabels(
                writeClusterDefinition(
                    WriteTimestamps(bkt, cluster.CreatedAt, cluster.UpdatedAt),
                    cluster.Definition),
                cluster.Labels),
            bucketKeyID, cluster.Status),
        bucketKeyStatus, cluster.ID)

\* writeCluster: timestamps, definition, labels, then the id and status fields
writeCluster(bkt, cluster) ==
    Put(Put(writeLabels(
                writeClusterDefinition(
                    WriteTimestamps(bkt, cluster.CreatedAt, cluster.UpdatedAt),
                    cluster.Definition),
                cluster.Labels),
            bucketKeyID, cluster.ID),
        bucketKeyStatus, cluster.Status)

\* The cluster readCluster has filled in when it returns, given what
\* ReadTimestamps (ts) and readClusterDefinition (def) returned.
clusterOf(bkt, cluster, ts, def) ==
    IF ts.err # NoErr
    THEN [err |-> ts.err,
          cluster |-> [cluster EXCEPT !.CreatedAt = ts.created,
                                      !.UpdatedAt = ts.updated]]
    ELSE IF def.err # NoErr
    THEN [err |-> def.err,
          cluster |-> [cluster EXCEPT !.CreatedAt = ts.created,
                                      !.UpdatedAt = ts.updated,
                                      !.Definition = def.cdef]]
    ELSE [err |-> NoErr,
          cluster |-> [cluster EXCEPT
                          !.CreatedAt = ts.created,
                          !.UpdatedAt = ts.updated,
                          !.Definition = def.cdef,
                          !.Labels = readLabels(bkt),
                          !.ID = IF HasKey(bkt, bucketKeyID)
                                 THEN bkt.kv[bucketKeyID] ELSE @,
                          !.Status = IF HasKey(bkt, bucketKeyStatus)
                                     THEN bkt.kv[bucketKeyStatus] ELSE @]]

\* readCluster: [err, cluster], the cluster as far as it was filled in
readCluster(bkt, cluster) ==
    clusterOf(bkt, cluster,
              ReadTimestamps(bkt, cluster.CreatedAt, cluster.UpdatedAt),
              readClusterDefinition(bkt))

\* ------------------------------------------------------ container addressing

\* getClustersBucket(tx) != nil
HasClustersBucket(root) == HasBucket(root, bucketKeyClusters)

\* getClustersBucket(tx), for a store that has the collection
getClustersBucket(root) == Bucket(root, bucketKeyClusters)

\* createClustersBucket(tx): the collection is created when it is missing
createClustersBucket(root) ==
    IF HasClustersBucket(root) THEN root ELSE CreateBucket(root, bucketKeyClusters)

\* A write through the handle of the entity bucket of id.
SetClusterBucket(root, id, cbkt) ==
    SetBucket(root, bucketKeyClusters, SetBucket(getClustersBucket(root), id, cbkt))

\* ------------------------------------------------------------- identifiers

\* The identifiers callers pass: two well-formed ones, the empty one and one
\* with a character outside the allowed set; in bolt's key order.
IdOrder == <<"", "a", "b", "b!">>

IDs == SeqToSet(IdOrder)

\* ValidateClusterID: non-empty, restricted character set
ValidateClusterID(id) == IF id \in {"a", "b"} THEN NoErr ELSE ErrInvalidArgument

\* Validate without its call of ValidateClusterID.
ValidateNothing(cluster) == NoErr

\* Cluster.Validate
Validate(cluster) == ValidateClusterID(cluster.ID)

\* --------------------------------------------------- transaction closures
\* The function each operation hands to m.Update or m.View, run on the
\* transaction's view of the store at time t: [err, work, out], the error it
\* returns, the store as the transaction has written it and the clusters the
\* operation has collected.

\* GetCluster, lines 104-122
\* What GetCluster returns for what readCluster returned.
getResult(r) ==
    IF r.err # NoErr THEN [err |-> r.err, out |-> <<>>]
    ELSE [err |-> NoErr, out |-> <<r.cluster>>]

GetClusterView(root, id) ==
    IF ~HasClustersBucket(root) THEN [err |-> ErrNotFound, out |-> <<>>]
    ELSE IF ~HasBucket(getClustersBucket(root), id)
    THEN [err |-> ErrNotFound, out |-> <<>>]
    ELSE getResult(readCluster(Bucket(getClustersBucket(root), id),
                               [ZeroCluster EXCEPT !.ID = id]))

\* The ForEach of ListClusters over the keys from position i on
RECURSIVE listFrom(_, _, _)
RECURSIVE listNext(_, _, _, _)
listFrom(bkt, i, acc) ==
    IF i > Len(IdOrder) THEN [err |-> NoErr, out |-> acc]
    ELSE IF ~HasBucket(bkt, IdOrder[i]) THEN listFrom(bkt, i + 1, acc)
    ELSE listNext(bkt, i, acc, readCluster(Bucket(bkt, IdOrder[i]),
                                           [ZeroCluster EXCEPT !.ID = IdOrder[i]]))

\* listNext with the collected clusters replaced by the one just read.
listNextLast(bkt, i, acc, r) ==
    IF r.err # NoErr THEN [err |-> r.err, out |-> <<>>]
    ELSE listFrom(bkt, i + 1, <<r.cluster>>)

listNext(bkt, i, acc, r) ==
    IF r.err # NoErr THEN [err |-> r.err, out |-> <<>>]
    ELSE listFrom(bkt, i + 1, Append(acc, r.cluster))

\* ListClusters, lines 132-154
ListClustersView(root) ==
    IF ~HasClustersBucket(root) THEN [err |-> NoErr, out |-> <<>>]
    ELSE listFrom(getClustersBucket(root), 1, <<>>)

\* CreateCluster, lines 168-186
\* createIn with CreateBucketIfNotExists in place of CreateBucket: an existing
\* cluster is overwritten.
createInOverwrite(r1, cluster, t) ==
    [err |-> NoErr,
     work |-> SetClusterBucket(r1, cluster.ID,
                 writeCluster(IF HasBucket(getClustersBucket(r1), cluster.ID)
                              THEN Bucket(getClustersBucket(r1), cluster.ID)
                              ELSE EmptyBucket,
                              [cluster EXCEPT !.CreatedAt = t, !.UpdatedAt = t])),
     out |-> <<[cluster EXCEPT !.CreatedAt = t, !.UpdatedAt = t]>>]

\* createIn without lines 183-184: the caller's timestamps are written.
createInCallerTimes(r1, cluster, t) ==
    IF HasBucket(getClustersBucket(r1), cluster.ID)
    THEN [err |-> ErrAlreadyExists, work |-> r1, out |-> <<>>]
    ELSE [err |-> NoErr,
          work |-> SetClusterBucket(r1, cluster.ID, writeCluster(EmptyBucket, cluster)),
          out |-> <<cluster>>]

\* lines 174-185, in the store r1 that has the collection
createIn(r1, cluster, t) ==
    IF HasBucket(getClustersBucket(r1), cluster.ID)
    THEN [err |-> ErrAlreadyExists, work |-> r1, out |-> <<>>]
    ELSE [err |-> NoErr,
          work |-> SetClusterBucket(r1, cluster.ID,
                      writeCluster(EmptyBucket,
                                   [cluster EXCEPT !.CreatedAt = t, !.UpdatedAt = t])),
          out |-> <<[cluster EXCEPT !.CreatedAt = t, !.UpdatedAt = t]>>]

CreateClusterTx(root, cluster, t) == createIn(createClustersBucket(root), cluster, t)

\* updateIn without line 209: the caller's UpdatedAt is written.
updateInKeepsUpdatedAt(r1, cluster, t) ==
    IF ~HasBucket(getClustersBucket(r1), cluster.ID)
    THEN [err |-> ErrNotFound, work |-> r1, out |-> <<>>]
    ELSE [err |-> NoErr,
          work |-> SetClusterBucket(r1, cluster.ID,
                      writeCluster(Bucket(getClustersBucket(r1), cluster.ID), cluster)),
          out |-> <<cluster>>]

\* updateIn with CreateBucketIfNotExists in place of Bucket: an absent cluster
\* is created.
updateInUpsert(r1, cluster, t) ==
    [err |-> NoErr,
     work |-> SetClusterBucket(r1, cluster.ID,
                 writeCluster(IF HasBucket(getClustersBucket(r1), cluster.ID)
                              THEN Bucket(getClustersBucket(r1), cluster.ID)
                              ELSE EmptyBucket,
                              [cluster EXCEPT !.UpdatedAt = t])),
     out |-> <<[cluster EXCEPT !.UpdatedAt = t]>>]

\* lines 204-210, in the store r1 that has the collection
updateIn(r1, cluster, t) ==
    IF ~HasBucket(getClustersBucket(r1), cluster.ID)
    THEN [err |-> ErrNotFound, work |-> r1, out |-> <<>>]
    ELSE [err |-> NoErr,
          work |-> SetClusterBucket(r1, cluster.ID,
                      writeCluster(Bucket(getClustersBucket(r1), cluster.ID),
                                   [cluster EXCEPT !.UpdatedAt = t])),
          out |-> <<[cluster EXCEPT !.UpdatedAt = t]>>]

\* UpdateCluster, lines 198-211
UpdateClusterTx(root, cluster, t) == updateIn(createClustersBucket(root), cluster, t)

\* The labels batchUpdateLabels hands to its callback: the current labels,
\* then every added label not yet among them, without the removed ones.
RECURSIVE addLabels(_, _)
addLabels(labels, adds) ==
    IF adds = <<>> THEN labels
    ELSE addLabels(IF Head(adds) \in SeqToSet(labels) THEN labels
                   ELSE Append(labels, Head(adds)),
                   Tail(adds))

removeLabels(labels, removes) ==
    SelectSeq(labels, LAMBDA l : l \notin SeqToSet(removes))

updatedLabels(labels, adds, removes) == removeLabels(addLabels(labels, adds), removes)

\* The callback of LabelClusters, lines 227-244: [err, bkt, cluster]
\* lines 235-243, with the cluster c as set up by lines 235-236
labelWrite(ibkt, c) == [err |-> NoErr, bkt |-> writeCluster(ibkt, c), cluster |-> c]

\* labelRead without the readCluster of line 230: the cluster written has
\* only its identifier, the new labels and the new updated-timestamp.
labelReadFresh(ibkt, r, labels, t) ==
    labelWrite(ibkt, [ZeroCluster EXCEPT !.ID = r.cluster.ID,
                                         !.Labels = labels, !.UpdatedAt = t])

\* labelRead without line 235: the cluster is written with the labels it had.
labelReadKeepsLabels(ibkt, r, labels, t) ==
    IF r.err # NoErr THEN [err |-> r.err, bkt |-> ibkt, cluster |-> r.cluster]
    ELSE labelWrite(ibkt, [r.cluster EXCEPT !.UpdatedAt = t])

\* lines 231-236, with what readCluster returned
labelRead(ibkt, r, labels, t) ==
    IF r.err # NoErr THEN [err |-> r.err, bkt |-> ibkt, cluster |-> r.cluster]
    ELSE labelWrite(ibkt, [r.cluster EXCEPT !.Labels = labels, !.UpdatedAt = t])

labelCallback(ibkt, id, labels, t) ==
    labelRead(ibkt, readCluster(ibkt, [ZeroCluster EXCEPT !.ID = id]), labels, t)

\* batchUpdateLabels over ids from position i on, with the store and the
\* collected clusters so far; the first failure ends the loop.  The callback
\* reads the clock once for each identifier: ts[i] is what it reads for ids[i].
RECURSIVE batchUpdateLabels(_, _, _, _, _, _, _)
RECURSIVE batchNext(_, _, _, _, _, _, _, _)
batchOne(ibkt, id, adds, removes, t) ==
    labelCallback(ibkt, id, updatedLabels(readLabels(ibkt), adds, removes), t)

batchUpdateLabels(root, ids, adds, removes, ts, i, acc) ==
    IF i > Len(ids) THEN [err |-> NoErr, work |-> root, out |-> acc]
    ELSE IF ~HasBucket(getClustersBucket(root), ids[i])
    THEN [err |-> ErrNotFound, work |-> root, out |-> acc]
    ELSE batchNext(root, ids, adds, removes, ts, i, acc,
                   batchOne(Bucket(getClustersBucket(root), ids[i]), ids[i],
                            adds, removes, ts[i]))

batchNext(root, ids, adds, removes, ts, i, acc, r) ==
    IF r.err # NoErr THEN [err |-> r.err, work |-> root, out |-> acc]
    ELSE batchUpdateLabels(SetClusterBucket(root, ids[i], r.bkt),
                           ids, adds, removes, ts, i + 1, Append(acc, r.cluster))

\* LabelClustersTx with adds and removes passed in each other's place.
LabelClustersTxSwapped(root, ids, adds, removes, ts) ==
    batchUpdateLabels(createClustersBucket(root), ids, removes, adds, ts, 1, <<>>)

\* LabelClustersTx with the error of batchUpdateLabels dropped.
LabelClustersTxSwallow(root, ids, adds, removes, ts) ==
    [batchUpdateLabels(createClustersBucket(root), ids, adds, removes, ts, 1, <<>>)
        EXCEPT !.err = NoErr]

\* LabelClusters, lines 221-250
LabelClustersTx(root, ids, adds, removes, ts) ==
    batchUpdateLabels(createClustersBucket(root), ids, adds, removes, ts, 1, <<>>)

\* DeleteClusterTx with ErrBucketNotFound let through as success.
DeleteClusterTxLenient(root, id) ==
    IF ~HasClustersBucket(root) THEN [err |-> NoErr, work |-> root, out |-> <<>>]
    ELSE [err |-> NoErr,
          work |-> SetBucket(root, bucketKeyClusters,
                             DeleteBucket(getClustersBucket(root), id)),
          out |-> <<>>]

\* lines 266-273, with the error err of DeleteBucket: ErrBucketNotFound
\* becomes NotFound, any other error is returned as it is.
deleteResult(root, id, err) ==
    IF err = ErrBucketNotFound THEN [err |-> ErrNotFound, work |-> root, out |-> <<>>]
    ELSE IF err # NoErr THEN [err |-> err, work |-> root, out |-> <<>>]
    ELSE [err |-> NoErr,
          work |-> SetBucket(root, bucketKeyClusters,
                             DeleteBucket(getClustersBucket(root), id)),
          out |-> <<>>]

\* DeleteCluster, lines 259-274
DeleteClusterTx(root, id) ==
    IF ~HasClustersBucket(root) THEN [err |-> NoErr, work |-> root, out |-> <<>>]
    ELSE deleteResult(root, id, DeleteBucketErr(getClustersBucket(root), id))

\* What the operations return after m.Update: the zero value (Cluster{} or
\* nil, here no clusters) on an error, the collected clusters otherwise.
Returned(r) == IF r.err # NoErr THEN <<>> ELSE r.out

\* m.Update: the store after the transaction, committed when the closure
\* returned no error and rolled back otherwise.
Committed(store, r) == IF r.err = NoErr THEN r.work ELSE store

\* ------------------------------------------------------------------ inputs

G1 == [Size |-> 3, InstanceType |-> "m5.large", Region |-> "us-east-1",
       Peer |-> <<>>, Labels |-> <<>>]

G2 == [Size |-> 12, InstanceType |-> "c5.xlarge", Region |-> "eu-west-1",
       Peer |-> <<[GitReference |-> "HEAD"]>>, Labels |-> <<"q", "p">>]

\* The cluster values callers pass, before the identifier is filled in: the
\* zero cluster (no groups, no labels), a cluster of one group and a cluster
\* of two groups, with the timestamps the caller left in them.
K0 == ZeroCluster

K1 == [ID |-> "", Status |-> "error", Definition |-> [Groups |-> <<G1>>],
       Labels |-> <<"r">>, CreatedAt |-> ZeroTime, UpdatedAt |-> ZeroTime]

K2 == [ID |-> "", Status |-> "created", Definition |-> [Groups |-> <<G2, G1>>],
       Labels |-> <<"q", "p">>, CreatedAt |-> Far, UpdatedAt |-> Far]

InputClusters ==
    {[k EXCEPT !.ID = id] : k \in {K0, K2}, id \in {"a", "b"}}
        \cup {[K2 EXCEPT !.ID = id] : id \in {"", "b!"}}
        \cup {[K1 EXCEPT !.ID = "a"]}

IdLists == {<<"a">>, <<"a", "b">>}

\* The label edits callers ask for: <<adds, removes>>
LabelEdits == {<< <<"p">>, <<>> >>, << <<"r">>, <<>> >>, << <<>>, <<"p">> >>,
               << <<"r", "p">>, <<"q">> >>}

\* The arguments of a call, one record shape for all operations.
Arg(cluster, id, ids, adds, removes) ==
    [cluster |-> cluster, id |-> id, ids |-> ids, adds |-> adds, removes |-> removes]

NoArg == Arg(ZeroCluster, "", <<>>, <<>>, <<>>)

\* ------------------------------------------------------------------- state

VARIABLES
    db,     \* the committed store: the root bucket
    now,    \* the latest value time.Now() returned; the clock never runs back
    tx,     \* the read-write transaction in progress (bolt admits one), with
            \* the clock values its closure read
    ret,    \* the last call that returned, with what it returned
    nops,   \* read-write transactions opened so far
    codec   \* a container under the codec alone: see SpecCodec

vars == <<db, now, tx, ret, nops, codec>>

Idle == [op |-> "idle", arg |-> NoArg, err |-> NoErr, out |-> <<>>,
         work |-> EmptyBucket, times |-> <<>>]

NoCall == [op |-> "none", arg |-> NoArg, err |-> NoErr, out |-> <<>>]

CodecOff == [stage |-> "off", prior |-> <<>>, input |-> ZeroCluster,
             bkt |-> EmptyBucket, out |-> [err |-> NoErr, cluster |-> ZeroCluster]]

Init ==
    /\ db = EmptyBucket
    /\ now = 1
    /\ tx = Idle
    /\ ret = NoCall
    /\ nops = 0
    /\ codec = CodecOff

\* The values time.Now() may return next: the clock does not run back, and
\* it is read at least once per unit of time.
Clock == {t \in {now, now + 1} : t <= MaxTime}

\* The values time.Now() may return to n successive reads.
ClockSeqs(n) ==
    {ts \in [1..n -> now..MaxTime] :
        \A i \in 1..n : ts[i] - (IF i = 1 THEN now ELSE ts[i - 1]) \in {0, 1}}

\* The first n of the clock values ts, and the latest value the clock has
\* returned after they were read.
Reads(ts, n) == SubSeq(ts, 1, n)

LastRead(ts) == IF ts = <<>> THEN now ELSE ts[Len(ts)]

\* m.Update takes the writer lock and runs the closure on the store; r is what
\* the closure returned and ts the values the clock has for its reads.  Every
\* closure reads the clock once for each cluster it writes and collects, just
\* before the write (lines 183, 209, 236).
Begin(op, arg, r, ts) ==
    /\ tx = Idle
    /\ nops < MaxOps
    /\ tx' = [op |-> op, arg |-> arg, err |-> r.err, out |-> r.out, work |-> r.work,
              times |-> Reads(ts, Len(r.out))]
    /\ nops' = nops + 1
    /\ now' = LastRead(Reads(ts, Len(r.out)))
    /\ UNCHANGED <<db, ret, codec>>

\* A call that returns without opening a transaction.
Return(op, arg, err, out) ==
    /\ ret' = [op |-> op, arg |-> arg, err |-> err, out |-> out]
    /\ UNCHANGED <<db, now, tx, nops, codec>>

\* GetCluster: a read-only transaction on the committed store
View(op, arg, r) == Return(op, arg, r.err, r.out)

GetCluster(id) ==
    View("Get", Arg(ZeroCluster, id, <<>>, <<>>, <<>>), GetClusterView(db, id))

\* ListClusters: a read-only transaction on the committed store
ListClusters == View("List", NoArg, ListClustersView(db))

\* CreateCluster: validation, then the transaction
CreateCluster(cluster, t) ==
    IF Validate(cluster) # NoErr
    THEN Return("Create", Arg(cluster, cluster.ID, <<>>, <<>>, <<>>),
                Validate(cluster), <<>>)
    ELSE Begin("Create", Arg(cluster, cluster.ID, <<>>, <<>>, <<>>),
               CreateClusterTx(db, cluster, t), <<t>>)

\* UpdateCluster: the identifier must not be empty, then the transaction
UpdateCluster(cluster, t) ==
    IF cluster.ID = ""
    THEN Return("Update", Arg(cluster, cluster.ID, <<>>, <<>>, <<>>),
                ErrInvalidArgument, <<>>)
    ELSE Begin("Update", Arg(cluster, cluster.ID, <<>>, <<>>, <<>>),
               UpdateClusterTx(db, cluster, t), <<t>>)

\* LabelClusters; ts[i] is what the clock returns to the callback for ids[i]
LabelClusters(ids, adds, removes, ts) ==
    Begin("Label", Arg(ZeroCluster, "", ids, adds, removes),
          LabelClustersTx(db, ids, adds, removes, ts), ts)

\* DeleteCluster
DeleteCluster(id) ==
    Begin("Delete", Arg(ZeroCluster, id, <<>>, <<>>, <<>>),
          DeleteClusterTx(db, id), <<>>)

\* m.Update ends: commit or rollback, the lock is released, the call returns.
End ==
    /\ tx # Idle
    /\ db' = Committed(db, tx)
    /\ ret' = [op |-> tx.op, arg |-> tx.arg, err |-> tx.err, out |-> Returned(tx)]
    /\ tx' = Idle
    /\ UNCHANGED <<now, nops, codec>>

Next ==
    \/ \E id \in IDs : GetCluster(id)
    \/ ListClusters
    \/ \E c \in InputClusters, t \in Clock : CreateCluster(c, t)
    \/ \E c \in InputClusters, t \in Clock : UpdateCluster(c, t)
    \/ \E ids \in IdLists, e \in LabelEdits :
          \E ts \in ClockSeqs(Len(ids)) : LabelClusters(ids, e[1], e[2], ts)
    \/ \E id \in IDs : DeleteCluster(id)
    \/ End

Spec == Init /\ [][Next]_vars

\* ------------------------------------------------------------- codec alone
\* writeCluster into a container that is empty or holds an earlier cluster,
\* then readCluster from it.

MaxGroups == 2

G3 == [Size |-> ClusterSizeMax, InstanceType |-> "", Region |-> "",
       Peer |-> <<[GitReference |-> ""]>>, Labels |-> <<"r">>]

SeqsUpTo(S, n) == UNION {[1..k -> S] : k \in 0..n}

CodecClusters ==
    {[ID |-> "a", Status |-> st, Definition |-> [Groups |-> gs], Labels |-> ls,
      CreatedAt |-> ts[1], UpdatedAt |-> ts[2]] :
        st \in {"", "created"},
        gs \in SeqsUpTo({ZeroGroup, G1, G2, G3}, MaxGroups),
        ls \in {<<>>, <<"p">>, <<"r", "q", "p">>},
        ts \in {<<ZeroTime, ZeroTime>>, <<1, 12>>}}

PriorClusters == {<<>>, <<[K2 EXCEPT !.ID = "b"]>>}

InitCodec ==
    /\ db = EmptyBucket
    /\ now = 1
    /\ tx = Idle
    /\ ret = NoCall
    /\ nops = 0
    /\ codec \in {[CodecOff EXCEPT !.stage = "input", !.prior = p, !.input = c] :
                      p \in PriorClusters, c \in CodecClusters}

\* An earlier cluster is written into the container.
CodecPrior ==
    /\ codec.stage = "input"
    /\ codec.prior # <<>>
    /\ codec' = [codec EXCEPT !.stage = "prior",
                              !.bkt = writeCluster(codec.bkt, codec.prior[1])]
    /\ UNCHANGED <<db, now, tx, ret, nops>>

\* writeCluster of the input into the container
CodecWrite ==
    /\ \/ codec.stage = "prior"
       \/ codec.stage = "input" /\ codec.prior = <<>>
    /\ codec' = [codec EXCEPT !.stage = "written",
                              !.bkt = writeCluster(codec.bkt, codec.input)]
    /\ UNCHANGED <<db, now, tx, ret, nops>>

\* readCluster from the container into a zero cluster
CodecRead ==
    /\ codec.stage = "written"
    /\ codec' = [codec EXCEPT !.stage = "read",
                              !.out = readCluster(codec.bkt, ZeroCluster)]
    /\ UNCHANGED <<db, now, tx, ret, nops>>

NextCodec == CodecPrior \/ CodecWrite \/ CodecRead

SpecCodec == InitCodec /\ [][NextCodec]_vars

\* ================================================================== claims

\* The identifier has an entity container in the store.
Present(store, id) ==
    HasClustersBucket(store) /\ HasBucket(getClustersBucket(store), id)

\* A cluster with its label lists as sets: label order is not significant.
NormGroup(g) == [g EXCEPT !.Labels = SeqToSet(@)]

Norm(c) ==
    [c EXCEPT !.Labels = SeqToSet(@),
              !.Definition = [Groups |-> [i \in 1..Len(c.Definition.Groups) |->
                                             NormGroup(c.Definition.Groups[i])]]]

\* The cluster GetCluster returns for a present identifier.
Stored(store, id) == GetClusterView(store, id).out[1]

\* The step in which the read-write transaction in progress ends.
Ending == tx # Idle /\ tx' = Idle

\* C1: CreateCluster for an identifier that is already present returns
\* AlreadyExists with no cluster, and the committed store, the existing
\* cluster and every other cluster included, is what it was before the call.
C1_CreateExactlyOnce ==
    [][(Ending /\ tx.op = "Create" /\ Present(db, tx.arg.id))
          => /\ ret'.op = "Create"
             /\ ret'.err = ErrAlreadyExists
             /\ ret'.out = <<>>
             /\ db' = db]_vars

\* A second create of "a" has returned AlreadyExists while "b" is present too.
C1_Witness ==
    /\ tx = Idle
    /\ ret.op = "Create" /\ ret.arg.id = "a" /\ ret.err = ErrAlreadyExists
    /\ Present(db, "a") /\ Present(db, "b")
    /\ Norm(Stored(db, "a")) # Norm([ret.arg.cluster EXCEPT !.CreatedAt = Stored(db, "a").CreatedAt,
                                                             !.UpdatedAt = Stored(db, "a").UpdatedAt])

\* C2: LabelClusters with an identifier that is not present returns NotFound
\* with no clusters, and the committed store is unchanged: no listed cluster,
\* before or after the missing one, has new labels or a new updated-timestamp.
C2_LabelAllOrNothing ==
    [][(Ending /\ tx.op = "Label"
          /\ \E i \in 1..Len(tx.arg.ids) : ~Present(db, tx.arg.ids[i]))
          => /\ ret'.op = "Label"
             /\ ret'.err = ErrNotFound
             /\ ret'.out = <<>>
             /\ db' = db]_vars

\* The batch <<"a", "b">> has failed on the missing "b" after the transaction
\* had rewritten the present "a".
C2_Witness ==
    /\ tx.op = "Label" /\ tx.arg.ids = <<"a", "b">>
    /\ Present(db, "a") /\ ~Present(db, "b")
    /\ tx.err = ErrNotFound
    /\ Len(tx.out) = 1
    /\ Norm(Stored(tx.work, "a")) # Norm(Stored(db, "a"))

\* C3: whatever GetCluster returns changes only in the step that commits a
\* transaction, and then to the absence of the cluster (a delete) or to a
\* cluster the committing CreateCluster, UpdateCluster or LabelClusters
\* returns: never to a mixture of two writes or to a part of one.
C3_NoPartialCluster ==
    [][\/ db' = db
       \/ /\ Ending /\ tx.err = NoErr
          /\ \A id \in IDs :
                \/ GetClusterView(db', id) = GetClusterView(db, id)
                \/ /\ tx.op = "Delete" /\ tx.arg.id = id
                   /\ GetClusterView(db', id).err = ErrNotFound
                \/ /\ tx.op \in {"Create", "Update", "Label"}
                   /\ GetClusterView(db', id).err = NoErr
                   /\ \E i \in 1..Len(tx.out) :
                         /\ tx.out[i].ID = id
                         /\ Norm(Stored(db', id)) = Norm(tx.out[i])
          /\ ListClustersView(db').err = NoErr
          /\ \A i \in 1..Len(ListClustersView(db').out) :
                ListClustersView(db').out[i]
                    = Stored(db', ListClustersView(db').out[i].ID)]_vars

\* GetCluster has returned the committed cluster "a" while an UpdateCluster
\* of "a" that has written another definition, labels and status is in progress.
C3_Witness ==
    /\ tx.op = "Update" /\ tx.arg.id = "a" /\ tx.err = NoErr
    /\ ret.op = "Get" /\ ret.arg.id = "a" /\ ret.err = NoErr
    /\ ret.out = <<Stored(db, "a")>>
    /\ Stored(tx.work, "a").Definition # Stored(db, "a").Definition
    /\ Stored(tx.work, "a").Status # Stored(db, "a").Status

\* The identifiers a successful transaction has rewritten.
Mutated(t) == IF t.op = "Label" THEN SeqToSet(t.arg.ids) ELSE {t.arg.id}

\* C4: a successful UpdateCluster leaves the persisted identifier and
\* created-timestamp of the cluster as they were, whatever the caller's
\* CreatedAt.
C4_UpdatePreservesCreatedAt ==
    [][(Ending /\ tx.op = "Update" /\ tx.err = NoErr)
          => /\ Stored(db', tx.arg.id).ID = Stored(db, tx.arg.id).ID
             /\ Stored(db', tx.arg.id).CreatedAt = Stored(db, tx.arg.id).CreatedAt]_vars

\* C5: every present cluster's persisted created-timestamp is at most its
\* updated-timestamp.
C5_CreatedBeforeUpdated ==
    \A id \in IDs :
        Present(db, id) => Stored(db, id).CreatedAt <= Stored(db, id).UpdatedAt

\* The clock values a transaction read are in the order of the clock, none
\* before the value from and the last one the value to.
ReadInOrder(times, from, to) ==
    /\ \A i \in 1..Len(times) :
          (IF i = 1 THEN from ELSE times[i - 1]) <= times[i]
    /\ to = (IF times = <<>> THEN from ELSE times[Len(times)])

\* C6: a successful UpdateCluster or LabelClusters sets the persisted
\* updated-timestamp of every cluster it names to the time it read for that
\* cluster during the call (LabelClusters reads the clock once for each
\* identifier), which is not before the updated-timestamp the cluster had;
\* and in no step does the updated-timestamp of a cluster that stays present
\* decrease.
C6_UpdatedAtAdvances ==
    [][/\ (tx = Idle /\ tx' # Idle) => ReadInOrder(tx'.times, now, now')
       /\ \/ db' = db
          \/ /\ (Ending /\ tx.err = NoErr /\ tx.op \in {"Update", "Label"})
                   => /\ Len(tx.times) = Len(tx.out)
                      /\ \A id \in Mutated(tx) :
                            /\ \E i \in 1..Len(tx.out) :
                                  /\ tx.out[i].ID = id
                                  /\ Stored(db', id).UpdatedAt = tx.times[i]
                            /\ Stored(db', id).UpdatedAt <= now
                            /\ Stored(db', id).UpdatedAt >= Stored(db, id).UpdatedAt
             /\ \A id \in IDs :
                   (Present(db, id) /\ Present(db', id))
                      => Stored(db', id).UpdatedAt >= Stored(db, id).UpdatedAt]_vars

\* A LabelClusters of "a" and "b" that read the time 1 for "a" and the time 2
\* for "b", later than the updated-timestamp "b" had, is about to commit.
C6_Witness ==
    /\ tx.op = "Label" /\ tx.err = NoErr /\ tx.arg.ids = <<"a", "b">>
    /\ tx.times = <<1, 2>>
    /\ now = 2
    /\ Stored(db, "b").UpdatedAt < 2
    /\ Stored(tx.work, "a").UpdatedAt = 1
    /\ Stored(tx.work, "b").UpdatedAt = 2

\* A DeleteCluster that returns success leaves GetCluster of its identifier
\* at NotFound.
DeleteHidesCluster ==
    (Ending /\ tx.op = "Delete" /\ tx.err = NoErr)
       => GetClusterView(db', tx.arg.id).err = ErrNotFound

\* GetCluster of an identifier leaves NotFound only when a CreateCluster of
\* that identifier commits.
OnlyCreateRestores ==
    \A id \in IDs :
       (db' # db /\ GetClusterView(db, id).err = ErrNotFound
                 /\ GetClusterView(db', id).err # ErrNotFound)
          => (Ending /\ tx.op = "Create" /\ tx.arg.id = id /\ tx.err = NoErr)

\* The cluster a successful CreateCluster persists has the status, groups and
\* labels given to that create and no others.
CreateIsFresh ==
    (Ending /\ tx.op = "Create" /\ tx.err = NoErr)
       => /\ GetClusterView(db', tx.arg.id).err = NoErr
          /\ Stored(db', tx.arg.id).ID = tx.arg.id
          /\ Stored(db', tx.arg.id).Status = tx.arg.cluster.Status
          /\ Norm(Stored(db', tx.arg.id)).Definition
                = Norm(tx.arg.cluster).Definition
          /\ Norm(Stored(db', tx.arg.id)).Labels
                = Norm(tx.arg.cluster).Labels

\* The DeleteCluster that is ending repeats the call that returned last: a
\* DeleteCluster of the same identifier that returned success.
SecondDelete ==
    /\ Ending /\ tx.op = "Delete"
    /\ ret.op = "Delete" /\ ret.err = NoErr /\ ret.arg.id = tx.arg.id

\* C7, as claimed: a successful DeleteCluster leaves GetCluster of the
\* identifier at NotFound, and it stays there until a CreateCluster of that
\* identifier commits; a second DeleteCluster of the identifier, after any
\* DeleteCluster of it that returned success, returns NotFound and changes
\* nothing; and the cluster a successful CreateCluster persists has the
\* status, groups and labels given to that create and no others.
C7_DeleteThenCreateAsClaimed ==
    [][/\ DeleteHidesCluster
       /\ OnlyCreateRestores
       /\ SecondDelete => (ret'.err = ErrNotFound /\ db' = db)
       /\ CreateIsFresh]_vars

\* C7, as amended: a successful DeleteCluster leaves GetCluster of the
\* identifier at NotFound, and it stays there until a CreateCluster of that
\* identifier commits; a second DeleteCluster of the identifier returns
\* NotFound and changes nothing when the first removed the cluster (the
\* collection exists), and returns success again and changes nothing when
\* the first was the success on a store without the collection; and the
\* cluster a successful CreateCluster persists has the status, groups and
\* labels given to that create and no others.
C7_DeleteThenCreate ==
    [][/\ DeleteHidesCluster
       /\ OnlyCreateRestores
       /\ (SecondDelete /\ HasClustersBucket(db))
             => (ret'.err = ErrNotFound /\ db' = db)
       /\ (SecondDelete /\ ~HasClustersBucket(db))
             => (ret'.err = NoErr /\ db' = db)
       /\ CreateIsFresh]_vars

\* DeleteCluster("a") has removed the cluster "a" and returned success, and a
\* second DeleteCluster("a") on the collection that is left is about to
\* return NotFound.
C7_Witness ==
    /\ ret.op = "Delete" /\ ret.arg.id = "a" /\ ret.err = NoErr
    /\ HasClustersBucket(db) /\ ~Present(db, "a")
    /\ tx.op = "Delete" /\ tx.arg.id = "a" /\ tx.err = ErrNotFound
    /\ tx.work = db

\* C8: UpdateCluster of an identifier that is not present returns NotFound
\* (InvalidArgument, without a transaction, for the empty identifier) and
\* LabelClusters naming one returns NotFound; the committed store is then
\* unchanged, so no collection container is left behind.  An identifier
\* becomes present only when a CreateCluster of it commits, and absent only
\* when a DeleteCluster of it commits.
C8_OnlyFromPresent ==
    [][/\ (Ending /\ tx.op = "Update" /\ ~Present(db, tx.arg.id))
             => (ret'.err = ErrNotFound /\ ret'.out = <<>> /\ db' = db)
       /\ (Ending /\ tx.op = "Label"
                  /\ \E i \in 1..Len(tx.arg.ids) : ~Present(db, tx.arg.ids[i]))
             => (ret'.err = ErrNotFound /\ ret'.out = <<>> /\ db' = db)
       /\ (ret' # ret /\ ret'.op = "Update" /\ ret'.arg.id = "")
             => (ret'.err = ErrInvalidArgument /\ db' = db /\ tx' = tx)
       /\ \A id \in IDs :
             /\ (~Present(db, id) /\ Present(db', id))
                   => (Ending /\ tx.op = "Create" /\ tx.arg.id = id /\ tx.err = NoErr)
             /\ (Present(db, id) /\ ~Present(db', id))
                   => (Ending /\ tx.op = "Delete" /\ tx.arg.id = id /\ tx.err = NoErr)]_vars

\* An UpdateCluster of the absent "a" on a store without the collection has
\* failed with NotFound after its transaction had created the collection.
C8_Witness ==
    /\ tx.op = "Update" /\ tx.arg.id = "a" /\ tx.err = ErrNotFound
    /\ ~HasClustersBucket(db)
    /\ HasClustersBucket(tx.work)

\* C9: readCluster of a container into which writeCluster wrote a cluster
\* succeeds and yields its identifier, status and timestamps, its groups in
\* their order with their size, instance type, region, peer and labels, and
\* its labels; label lists agree as sets and come back without duplicates.
C9_RoundTrip ==
    codec.stage = "read" =>
        /\ codec.out.err = NoErr
        /\ codec.out.cluster.ID = codec.input.ID
        /\ codec.out.cluster.Status = codec.input.Status
        /\ codec.out.cluster.CreatedAt = codec.input.CreatedAt
        /\ codec.out.cluster.UpdatedAt = codec.input.UpdatedAt
        /\ SeqToSet(codec.out.cluster.Labels) = SeqToSet(codec.input.Labels)
        /\ Len(codec.out.cluster.Labels) = Cardinality(SeqToSet(codec.input.Labels))
        /\ Len(codec.out.cluster.Definition.Groups)
              = Len(codec.input.Definition.Groups)
        /\ \A i \in 1..Len(codec.input.Definition.Groups) :
              /\ codec.out.cluster.Definition.Groups[i].Size
                    = codec.input.Definition.Groups[i].Size
              /\ codec.out.cluster.Definition.Groups[i].InstanceType
                    = codec.input.Definition.Groups[i].InstanceType
              /\ codec.out.cluster.Definition.Groups[i].Region
                    = codec.input.Definition.Groups[i].Region
              /\ codec.out.cluster.Definition.Groups[i].Peer
                    = codec.input.Definition.Groups[i].Peer
              /\ SeqToSet(codec.out.cluster.Definition.Groups[i].Labels)
                    = SeqToSet(codec.input.Definition.Groups[i].Labels)

\* A cluster of two groups, the first with a peer and the second without,
\* and of three labels has been written over an earlier cluster and read
\* back, with its labels in another order.
C9_Witness ==
    /\ codec.stage = "read"
    /\ codec.prior # <<>>
    /\ Len(codec.input.Definition.Groups) = 2
    /\ codec.input.Definition.Groups[1].Peer # <<>>
    /\ codec.input.Definition.Groups[2].Peer = <<>>
    /\ codec.input.Definition.Groups[1].Size = ClusterSizeMax
    /\ Len(codec.input.Labels) = 3
    /\ codec.out.cluster.Labels # codec.input.Labels
    /\ codec.out.cluster.Definition.Groups[2] = G1

\* C10: a LabelClusters on present clusters succeeds; where every added label
\* is already in a cluster's label set and no removed label is, the persisted
\* label set is the set before the call; and a LabelClusters that repeats the
\* call that returned last leaves every label set as that call left it.
C10_LabelIdempotent ==
    [][(Ending /\ tx.op = "Label"
          /\ \A i \in 1..Len(tx.arg.ids) : Present(db, tx.arg.ids[i]))
          => /\ ret'.err = NoErr
             /\ \A id \in SeqToSet(tx.arg.ids) :
                   /\ (/\ SeqToSet(tx.arg.adds) \subseteq SeqToSet(Stored(db, id).Labels)
                       /\ SeqToSet(tx.arg.removes) \cap SeqToSet(Stored(db, id).Labels) = {})
                         => SeqToSet(Stored(db', id).Labels)
                               = SeqToSet(Stored(db, id).Labels)
                   /\ (ret.op = "Label" /\ ret.err = NoErr /\ ret.arg = tx.arg)
                         => SeqToSet(Stored(db', id).Labels)
                               = SeqToSet(Stored(db, id).Labels)]_vars

\* The LabelClusters that added "r" and "p" to "a" and removed "q" has
\* returned, and the same call, now adding labels that are present and
\* removing one that is absent, is about to commit.
C10_Witness ==
    /\ ret.op = "Label" /\ ret.err = NoErr
    /\ tx.op = "Label" /\ tx.err = NoErr /\ tx.arg = ret.arg
    /\ tx.arg.ids = <<"a">> /\ tx.arg.adds = <<"r", "p">> /\ tx.arg.removes = <<"q">>
    /\ SeqToSet(Stored(db, "a").Labels) = {"p", "r"}
    /\ SeqToSet(Stored(tx.work, "a").Labels) = {"p", "r"}

\* C11: after a successful UpdateCluster, GetCluster returns the groups, the
\* label set and the status given to the update and nothing of the cluster
\* as it was before: no earlier group and no earlier label survives.
C11_UpdateOverwrites ==
    [][(Ending /\ tx.op = "Update" /\ tx.err = NoErr)
          => /\ GetClusterView(db', tx.arg.id).err = NoErr
             /\ Stored(db', tx.arg.id).Status = tx.arg.cluster.Status
             /\ Len(Stored(db', tx.arg.id).Definition.Groups)
                   = Len(tx.arg.cluster.Definition.Groups)
             /\ Norm(Stored(db', tx.arg.id)).Definition
                   = Norm(tx.arg.cluster).Definition
             /\ SeqToSet(Stored(db', tx.arg.id).Labels)
                   = SeqToSet(tx.arg.cluster.Labels)]_vars

\* An UpdateCluster of "a" with a cluster of one group and the label "r" is
\* about to commit over a cluster of two groups and the labels "p" and "q".
C11_Witness ==
    /\ tx.op = "Update" /\ tx.err = NoErr
    /\ tx.arg.cluster = [K1 EXCEPT !.ID = "a"]
    /\ Len(Stored(db, "a").Definition.Groups) = 2
    /\ SeqToSet(Stored(db, "a").Labels) = {"p", "q"}
    /\ Stored(db, "a").Status = "created"
    /\ Stored(tx.work, "a").Definition.Groups = <<G1>>
    /\ Stored(tx.work, "a").Labels = <<"r">>
    /\ Stored(tx.work, "a").Status = "error"

\* C12: DeleteCluster of an identifier that has no entity container returns
\* NotFound when the collection exists and success when the collection is
\* missing, and the committed store is unchanged either way.
C12_DeleteAbsent ==
    [][(Ending /\ tx.op = "Delete" /\ ~Present(db, tx.arg.id))
          => /\ ret'.op = "Delete"
             /\ ret'.err = (IF HasClustersBucket(db) THEN ErrNotFound ELSE NoErr)
             /\ ret'.out = <<>>
             /\ db' = db]_vars

\* C13: the cluster a successful CreateCluster persists and the cluster it
\* returns both have the created-timestamp and the updated-timestamp equal to
\* the time the create read, whatever timestamps the caller's input carries.
C13_CreateTimestamps ==
    [][(Ending /\ tx.op = "Create" /\ tx.err = NoErr)
          => /\ Len(ret'.out) = 1
             /\ ret'.out[1].CreatedAt = now
             /\ ret'.out[1].UpdatedAt = now
             /\ GetClusterView(db', tx.arg.id).err = NoErr
             /\ Stored(db', tx.arg.id).CreatedAt = now
             /\ Stored(db', tx.arg.id).UpdatedAt = now]_vars

\* A CreateCluster of "a" that read the time 2 is about to commit a cluster
\* whose input carried later timestamps.
C13_Witness ==
    /\ tx.op = "Create" /\ tx.err = NoErr /\ tx.arg.id = "a"
    /\ tx.arg.cluster.CreatedAt = Far /\ tx.arg.cluster.UpdatedAt = Far
    /\ now = 2
    /\ Stored(tx.work, "a").CreatedAt = 2
    /\ Stored(tx.work, "a").UpdatedAt = 2
    /\ tx.out[1].CreatedAt = 2

\* C14: the entity container of a present cluster has a "definition" child
\* container only if the cluster has at least one group.
C14_DefinitionOnlyWithGroups ==
    \A id \in IDs :
        (Present(db, id)
            /\ HasBucket(Bucket(getClustersBucket(db), id), bucketKeyDefinition))
           => Len(Stored(db, id).Definition.Groups) >= 1

\* The keys of the group containers of the cluster id, and the decimal texts
\* of 0 .. n-1.
DefinitionKeys(store, id) ==
    DOMAIN Bucket(Bucket(getClustersBucket(store), id), bucketKeyDefinition).sub

DenseKeys(n) == {Itoa(i) : i \in 0..(n - 1)}

\* C15: the group containers in the definition container of every present
\* cluster are keyed by exactly the decimal texts of 0 .. n-1, n being the
\* number of groups readClusterDefinition returns; and after a successful
\* CreateCluster, UpdateCluster or LabelClusters n is the number of groups the
\* call wrote and the groups read back are those, in their written order.
C15_DenseGroupKeys ==
    [][\/ db' = db
       \/ /\ \A id \in IDs :
                (Present(db', id)
                    /\ HasBucket(Bucket(getClustersBucket(db'), id), bucketKeyDefinition))
                   => /\ GetClusterView(db', id).err = NoErr
                      /\ DefinitionKeys(db', id)
                            = DenseKeys(Len(Stored(db', id).Definition.Groups))
          /\ (Ending /\ tx.err = NoErr /\ tx.op \in {"Create", "Update", "Label"})
                => \A i \in 1..Len(tx.out) :
                      /\ DefinitionKeys(db', tx.out[i].ID)
                            = DenseKeys(Len(tx.out[i].Definition.Groups))
                      /\ Len(Stored(db', tx.out[i].ID).Definition.Groups)
                            = Len(tx.out[i].Definition.Groups)
                      /\ Norm(Stored(db', tx.out[i].ID)).Definition
                            = Norm(tx.out[i]).Definition]_vars

\* An UpdateCluster has grown "a" to two groups, keyed "0" and "1", and an
\* UpdateCluster that shrinks it to one group, keyed "0", is about to commit.
C15_Witness ==
    /\ ret.op = "Update" /\ ret.err = NoErr /\ ret.arg.id = "a"
    /\ Len(ret.arg.cluster.Definition.Groups) = 2
    /\ DefinitionKeys(db, "a") = {<<"0">>, <<"1">>}
    /\ tx.op = "Update" /\ tx.err = NoErr /\ tx.arg.id = "a"
    /\ Len(tx.arg.cluster.Definition.Groups) = 1
    /\ DefinitionKeys(tx.work, "a") = {<<"0">>}
    /\ Stored(tx.work, "a").Definition.Groups = <<G1>>

\* Every listed cluster is stored under its ID, and none is listed twice.
ListedOnce(store, out) ==
    \A i, j \in 1..Len(out) :
        /\ Present(store, out[i].ID)
        /\ (out[i].ID = out[j].ID) => i = j

\* C16: the collection holds one entity container per present identifier, the
\* "id" field in it is the key it is stored under, and GetCluster and
\* ListClusters return each cluster with that key as its ID; so no
\* UpdateCluster or LabelClusters changes the identifier of a cluster.
C16_IdIsKey ==
    /\ \A id \in IDs :
          Present(db, id)
             => /\ HasKey(Bucket(getClustersBucket(db), id), bucketKeyID)
                /\ Bucket(getClustersBucket(db), id).kv[bucketKeyID] = id
                /\ GetClusterView(db, id).err = NoErr
                /\ Stored(db, id).ID = id
    /\ HasClustersBucket(db) => DOMAIN getClustersBucket(db).sub \subseteq IDs
    /\ ListedOnce(db, ListClustersView(db).out)

\* Both "a" and "b" are present with their keys as identifiers after a
\* LabelClusters that rewrote the two of them has returned.
C16_Witness ==
    /\ tx = Idle
    /\ ret.op = "Label" /\ ret.err = NoErr /\ ret.arg.ids = <<"a", "b">>
    /\ Len(ret.out) = 2
    /\ Stored(db, "a").ID = "a" /\ Stored(db, "b").ID = "b"
    /\ Len(ListClustersView(db).out) = 2
    /\ ListClustersView(db).out[1].ID = "a"
    /\ ListClustersView(db).out[2].ID = "b"

\* C17: a successful LabelClusters leaves the identifier, status, definition
\* (groups with their fields, peers and labels) and created-timestamp of every
\* cluster it names as they were and makes its label set the earlier labels
\* with the added ones and without the removed ones; the entity container of
\* every other identifier, and the set of present identifiers, is unchanged.
C17_LabelFrame ==
    [][(Ending /\ tx.op = "Label" /\ tx.err = NoErr)
          => /\ \A id \in SeqToSet(tx.arg.ids) :
                   /\ GetClusterView(db', id).err = NoErr
                   /\ Stored(db', id).ID = Stored(db, id).ID
                   /\ Stored(db', id).Status = Stored(db, id).Status
                   /\ Stored(db', id).CreatedAt = Stored(db, id).CreatedAt
                   /\ Stored(db', id).Definition = Stored(db, id).Definition
                   /\ SeqToSet(Stored(db', id).Labels)
                         = (SeqToSet(Stored(db, id).Labels) \cup SeqToSet(tx.arg.adds))
                              \ SeqToSet(tx.arg.removes)
             /\ DOMAIN getClustersBucket(db').sub = DOMAIN getClustersBucket(db).sub
             /\ \A id \in (DOMAIN getClustersBucket(db).sub) \ SeqToSet(tx.arg.ids) :
                   Bucket(getClustersBucket(db'), id) = Bucket(getClustersBucket(db), id)]_vars

\* A LabelClusters of "a" alone, adding "r" and "p" and removing "q", is about
\* to commit at a later time than the last write of "a", a cluster of two
\* groups labelled "p" and "q", while "b" is present too.
C17_Witness ==
    /\ tx.op = "Label" /\ tx.err = NoErr
    /\ tx.arg.ids = <<"a">> /\ tx.arg.adds = <<"r", "p">> /\ tx.arg.removes = <<"q">>
    /\ Present(db, "b")
    /\ Len(Stored(db, "a").Definition.Groups) = 2
    /\ Stored(db, "a").Definition.Groups[1].Peer # <<>>
    /\ Stored(db, "a").Definition.Groups[2] = G1
    /\ Stored(db, "a").Status = "created"
    /\ SeqToSet(Stored(db, "a").Labels) = {"p", "q"}
    /\ SeqToSet(Stored(tx.work, "a").Labels) = {"p", "r"}
    /\ Stored(tx.work, "a").UpdatedAt > Stored(db, "a").UpdatedAt

\* The identifiers present in the store.
PresentIds(store) == {id \in IDs : Present(store, id)}

\* The result l of ListClusters has one cluster per present identifier, the
\* one GetCluster returns for it, and nothing else.
ListAgrees(store, l) ==
    /\ l.err = NoErr
    /\ Len(l.out) = Cardinality(PresentIds(store))
    /\ \A id \in PresentIds(store) :
          /\ GetClusterView(store, id).err = NoErr
          /\ \E i \in 1..Len(l.out) : l.out[i] = Stored(store, id)
    /\ (~HasClustersBucket(store) \/ PresentIds(store) = {}) => l.out = <<>>

\* C18: in every reachable state ListClusters succeeds and returns exactly one
\* cluster per present identifier, equal to what GetCluster returns for it,
\* and an empty list when the collection is missing or holds no cluster.
C18_ListAgreesWithGet == ListAgrees(db, ListClustersView(db))

\* ListClusters has returned the two present clusters, "a" of two groups and
\* "b" of none, each as GetCluster returns it.
C18_Witness ==
    /\ ret.op = "List" /\ ret.err = NoErr
    /\ Len(ret.out) = 2
    /\ ret.out[1] = Stored(db, "a")
    /\ ret.out[2] = Stored(db, "b")
    /\ Len(ret.out[1].Definition.Groups) = 2
    /\ Len(ret.out[2].Definition.Groups) = 0

\* C19: read-write transactions run one at a time, each on the store the one
\* before it committed.  A successful LabelClusters that removes nothing
\* keeps every label its clusters had and adds its own, so when it follows a
\* LabelClusters that removed nothing either, every cluster the two name has
\* the labels both added.  A CreateCluster of an absent identifier succeeds,
\* and a CreateCluster that follows a successful CreateCluster of the same
\* identifier returns AlreadyExists.
C19_NoLostUpdate ==
    [][/\ (Ending /\ tx.op = "Label" /\ tx.err = NoErr /\ tx.arg.removes = <<>>)
             => /\ ret'.err = NoErr
                /\ \A id \in SeqToSet(tx.arg.ids) :
                      /\ SeqToSet(Stored(db, id).Labels) \cup SeqToSet(tx.arg.adds)
                            \subseteq SeqToSet(Stored(db', id).Labels)
                      /\ (ret.op = "Label" /\ ret.err = NoErr /\ ret.arg.removes = <<>>
                             /\ id \in SeqToSet(ret.arg.ids))
                            => SeqToSet(ret.arg.adds) \cup SeqToSet(tx.arg.adds)
                                  \subseteq SeqToSet(Stored(db', id).Labels)
       /\ (Ending /\ tx.op = "Create" /\ ~Present(db, tx.arg.id))
             => (ret'.err = NoErr /\ Present(db', tx.arg.id))
       /\ (Ending /\ tx.op = "Create" /\ ret.op = "Create" /\ ret.err = NoErr
                  /\ ret.arg.id = tx.arg.id)
             => (ret'.err = ErrAlreadyExists /\ db' = db)
       /\ (tx # Idle /\ tx' # tx) => Ending
       /\ (tx # Idle /\ ~Ending) => db' = db]_vars

\* The LabelClusters that added "p" to "a" has returned and the one that adds
\* "r" to it is about to commit a label set with both.
C19_Witness ==
    /\ ret.op = "Label" /\ ret.err = NoErr
    /\ ret.arg.ids = <<"a">> /\ ret.arg.adds = <<"p">> /\ ret.arg.removes = <<>>
    /\ tx.op = "Label" /\ tx.err = NoErr
    /\ tx.arg.ids = <<"a">> /\ tx.arg.adds = <<"r">> /\ tx.arg.removes = <<>>
    /\ SeqToSet(Stored(db, "a").Labels) = {"p"}
    /\ SeqToSet(Stored(tx.work, "a").Labels) = {"p", "r"}

\* C20: every present identifier satisfies ValidateClusterID.  A
\* CreateCluster whose identifier does not returns the validation error
\* without opening a transaction and leaves the store as it was; and an
\* entity container appears only when a CreateCluster of its identifier
\* commits, though UpdateCluster opens its transaction for any identifier
\* that is not empty.
C20_ValidIdentifiers ==
    [][/\ \A id \in IDs : Present(db', id) => ValidateClusterID(id) = NoErr
       /\ (ret' # ret /\ ret'.op = "Create" /\ Validate(ret'.arg.cluster) # NoErr)
             => /\ ret'.err = Validate(ret'.arg.cluster)
                /\ ret'.out = <<>>
                /\ db' = db /\ tx' = tx /\ nops' = nops
       /\ (tx = Idle /\ tx'.op = "Create") => Validate(tx'.arg.cluster) = NoErr
       /\ (tx = Idle /\ tx'.op = "Update") => tx'.arg.id # ""
       /\ \A id \in IDs :
             (~Present(db, id) /\ Present(db', id))
                => (Ending /\ tx.op = "Create" /\ tx.arg.id = id /\ tx.err = NoErr)]_vars

\* A CreateCluster of the malformed "b!" has returned the validation error
\* without a transaction, and an UpdateCluster of "b!" has opened one and
\* found no cluster, while "a" is present.
C20_Witness ==
    /\ ret.op = "Create" /\ ret.arg.id = "b!" /\ ret.err = ErrInvalidArgument
    /\ tx.op = "Update" /\ tx.arg.id = "b!" /\ tx.err = ErrNotFound
    /\ Present(db, "a") /\ ~Present(db, "b!")

====
